---- MODULE Spec2Model ----
(***************************************************************************)
(* A model of fetch-npm-deps (pkgs/build-support/node/fetch-npm-deps):     *)
(* the hosted-git URL resolver, the integrity selector, the v1 lockfile    *)
(* flattening and the parallel fetch-and-store run of main.                *)
(*                                                                         *)
(* Strings are TLA+ strings; Len, SubSeq, Tail and \o act on them as on    *)
(* sequences of characters.  Option<T> is a tagged record.                 *)
(***************************************************************************)
EXTENDS Naturals, Integers, Sequences, FiniteSets, TLC

VARIABLES
    url,        \* get_hosted_git_url: the argument
    hosted,     \* get_hosted_git_url: the outcome, or Pending
    integrity,  \* get_ideal_hash: the argument
    tokens,     \* the tokens the integrity string was assembled from (history)
    ideal,      \* get_ideal_hash: the outcome, or Pending
    old,        \* to_new_packages: old_packages, the legacy dependency tree
    new,        \* to_new_packages: the map returned, or Pending
    content,    \* the cache's content blobs: path -> bytes
    index,      \* the cache's index: bucket path -> the records appended
    calls,      \* Cache::put called on its own: the calls made and their results (history)
    lock,       \* main: the lockfile read, its text and its parsed form
    pc,         \* main: "start", "fetch" (inside try_for_each) or "done"
    packages,   \* main: the packages iterated over
    unvisited,  \* main: the keys the parallel iterator has not handed out
    workers,    \* main: what each pool thread's closure call is doing
    full,       \* main: a closure call returned Err (try_for_each stops)
    panicked,   \* main: a closure call panicked
    started,    \* main: the keys the closure was called for (history)
    requests,   \* main: the HTTP GETs issued, with the key each is for (history)
    puts,       \* main: the cache.put calls that returned Ok (history)
    lockcopy,   \* main: <out>/package-lock.json, None while not written
    outcome     \* main: "running", "Ok", "Err" or "Panic"

pureVars == <<url, hosted, integrity, tokens, ideal, old, new>>
cacheVars == <<content, index>>
mainVars == <<lock, pc, packages, unvisited, workers, full, panicked, started, requests,
              puts, lockcopy, outcome>>
vars == <<pureVars, cacheVars, calls, mainVars>>

-----------------------------------------------------------------------------
(* Option, Result and the abnormal outcome of a call.                      *)

None == [tag |-> "None"]
Some(v) == [tag |-> "Some", val |-> v]
Ok(v) == [tag |-> "Ok", val |-> v]
Err(e) == [tag |-> "Err", err |-> e]
Panic == [tag |-> "Panic"]
Pending == [tag |-> "Pending"]
Idle == [tag |-> "Idle"]

IsSome(o) == o.tag = "Some"
IsNone(o) == o.tag = "None"

-----------------------------------------------------------------------------
(* str methods.                                                            *)

StartsWith(s, p) == Len(s) >= Len(p) /\ SubSeq(s, 1, Len(p)) = p

EndsWith(s, p) == Len(s) >= Len(p) /\ SubSeq(s, Len(s) - Len(p) + 1, Len(s)) = p

Contains(s, p) == \E i \in 1..(Len(s) - Len(p) + 1) : SubSeq(s, i, i + Len(p) - 1) = p

StripSuffix(s, p) == IF EndsWith(s, p) THEN Some(SubSeq(s, 1, Len(s) - Len(p))) ELSE None

CharAt(s, i) == SubSeq(s, i, i)

\* The least index in from..Len(s) whose character is in cs, or Len(s) + 1.
RECURSIVE FindFrom(_, _, _)
FindFrom(s, cs, from) ==
    IF from > Len(s) THEN Len(s) + 1
    ELSE IF CharAt(s, from) \in cs THEN from
    ELSE FindFrom(s, cs, from + 1)

\* str::split(c): the pieces between the occurrences of c, empty ones kept.
RECURSIVE SplitChar(_, _)
SplitChar(s, c) ==
    LET i == FindFrom(s, {c}, 1)
    IN  IF i > Len(s) THEN <<s>>
        ELSE <<SubSeq(s, 1, i - 1)>> \o SplitChar(SubSeq(s, i + 1, Len(s)), c)

AsciiWhitespace == {" ", "\t", "\n", "\r", "\f"}

RECURSIVE SkipWhitespace(_, _)
SkipWhitespace(s, from) ==
    IF from > Len(s) THEN Len(s) + 1
    ELSE IF CharAt(s, from) \in AsciiWhitespace THEN SkipWhitespace(s, from + 1)
    ELSE from

\* str::split_ascii_whitespace: the maximal runs of non-whitespace.
RECURSIVE SplitAsciiWhitespace(_)
SplitAsciiWhitespace(s) ==
    LET b == SkipWhitespace(s, 1)
        e == FindFrom(s, AsciiWhitespace, b)
    IN  IF b > Len(s) THEN <<>>
        ELSE <<SubSeq(s, b, e - 1)>> \o SplitAsciiWhitespace(SubSeq(s, e, Len(s)))

RECURSIVE Join(_, _)
Join(ss, sep) ==
    IF Len(ss) = 0 THEN ""
    ELSE IF Len(ss) = 1 THEN ss[1]
    ELSE ss[1] \o sep \o Join(Tail(ss), sep)

\* Iterator::next on a sequence read from position i (1-based).
Nth(ss, i) == IF i <= Len(ss) THEN Some(ss[i]) ELSE None

-----------------------------------------------------------------------------
(* url::Url, as its parsed components.                                     *)

MkUrl(scheme, userinfo, host, path, query, fragment) ==
    [scheme |-> scheme, userinfo |-> userinfo, host |-> host, path |-> path,
     query |-> query, fragment |-> fragment]

\* The parser's path state on the segments of a path: "." is dropped, ".."
\* drops the segment before it, and either one at the end leaves an empty
\* last segment.
RECURSIVE ResolveDots(_, _)
ResolveDots(segs, acc) ==
    IF Len(segs) = 0 THEN acc
    ELSE LET seg == Head(segs)
             last == Len(segs) = 1
             popped == IF Len(acc) = 0 THEN acc ELSE SubSeq(acc, 1, Len(acc) - 1)
         IN  CASE seg = ".." ->
                    ResolveDots(Tail(segs), IF last THEN Append(popped, "") ELSE popped)
               [] seg = "." ->
                    ResolveDots(Tail(segs), IF last THEN Append(acc, "") ELSE acc)
               [] OTHER -> ResolveDots(Tail(segs), Append(acc, seg))

ParsePath(path) ==
    IF path = "" THEN ""
    ELSE "/" \o Join(ResolveDots(SplitChar(Tail(path), "/"), <<>>), "/")

\* Url::parse of an absolute URL with an authority: scheme "://" [userinfo "@"]
\* host path ["?" query] ["#" fragment].  A special scheme has at least "/" as
\* its path.  Err when there is no "://" or the host is empty.  The percent-
\* encoding of characters a component may not hold is left out: the text drawn
\* has none.
UrlParse(s) ==
    LET colon == FindFrom(s, {":"}, 1)
        scheme == SubSeq(s, 1, colon - 1)
        rest == SubSeq(s, colon + 3, Len(s))
        hash == FindFrom(rest, {"#"}, 1)
        beforeFrag == SubSeq(rest, 1, hash - 1)
        fragment == IF hash > Len(rest) THEN None
                    ELSE Some(SubSeq(rest, hash + 1, Len(rest)))
        qm == FindFrom(beforeFrag, {"?"}, 1)
        beforeQuery == SubSeq(beforeFrag, 1, qm - 1)
        query == IF qm > Len(beforeFrag) THEN None
                 ELSE Some(SubSeq(beforeFrag, qm + 1, Len(beforeFrag)))
        slash == FindFrom(beforeQuery, {"/"}, 1)
        authority == SubSeq(beforeQuery, 1, slash - 1)
        rawPath == SubSeq(beforeQuery, slash, Len(beforeQuery))
        at == FindFrom(authority, {"@"}, 1)
        userinfo == IF at > Len(authority) THEN "" ELSE SubSeq(authority, 1, at - 1)
        host == IF at > Len(authority) THEN authority
                ELSE SubSeq(authority, at + 1, Len(authority))
        special == scheme \in {"http", "https", "ftp", "ws", "wss"}
        path == IF special /\ rawPath = "" THEN "/" ELSE ParsePath(rawPath)
    IN  IF colon > Len(s) \/ colon = 1 \/ SubSeq(s, colon, colon + 2) # "://"
           \/ host = ""
        THEN Err("url parse")
        ELSE Ok(MkUrl(scheme, userinfo, Some(host), path, query, fragment))

\* Url's Display / as_str: the serialization.
UrlToString(u) ==
    u.scheme \o ":"
    \o (IF IsSome(u.host)
        THEN "//" \o (IF u.userinfo = "" THEN "" ELSE u.userinfo \o "@") \o u.host.val
        ELSE "")
    \o u.path
    \o (IF IsSome(u.query) THEN "?" \o u.query.val ELSE "")
    \o (IF IsSome(u.fragment) THEN "#" \o u.fragment.val ELSE "")

\* Url::path_segments: None unless the path starts with "/".
PathSegments(u) ==
    IF StartsWith(u.path, "/") THEN Some(SplitChar(Tail(u.path), "/")) ELSE None

\* Url::parse(&format!(..)).ok()? as the tail of a provider arm.
ParsedOrNone(s) == LET r == UrlParse(s) IN IF r.tag = "Ok" THEN Some(r.val) ELSE None

StripGit_Never(project) == Some(project)

\* if project.ends_with(".git") { project = project.strip_suffix(".git")?; }
StripGit(project) ==
    IF EndsWith(project, ".git") THEN StripSuffix(project, ".git") ELSE Some(project)

HostedSchemes == {"git", "http", "git+ssh", "git+https", "ssh", "https"}

GithubArm(u, s) ==
    LET user == Nth(s, 1)
        project == Nth(s, 2)
        typ == Nth(s, 3)
        commit == IF IsNone(typ) THEN u.fragment ELSE Nth(s, 4)
    IN  IF IsNone(user) \/ IsNone(project) THEN None
        ELSE IF IsSome(typ) /\ typ # Some("tree") THEN None
        ELSE IF IsNone(StripGit(project.val)) THEN None
        ELSE IF IsNone(commit) THEN Panic
        ELSE ParsedOrNone("https://codeload.github.com/" \o user.val \o "/"
                          \o StripGit(project.val).val \o "/tar.gz/" \o commit.val)

BitbucketArm(u, s) ==
    LET user == Nth(s, 1)
        project == Nth(s, 2)
        aux == Nth(s, 3)
    IN  IF IsNone(user) \/ IsNone(project) THEN None
        ELSE IF aux = Some("get") THEN None
        ELSE IF IsNone(StripGit(project.val)) THEN None
        ELSE IF IsNone(u.fragment) THEN None
        ELSE ParsedOrNone("https://bitbucket.org/" \o user.val \o "/"
                          \o StripGit(project.val).val \o "/get/" \o u.fragment.val
                          \o ".tar.gz")

GitlabArm(u, s) ==
    LET path == Tail(u.path)
        user == Nth(s, 1)
        project == Nth(s, 2)
    IN  IF Contains(path, "/~/") \/ Contains(path, "/archive.tar.gz") THEN None
        ELSE IF IsNone(user) \/ IsNone(project) THEN None
        ELSE IF IsNone(StripGit(project.val)) THEN None
        ELSE IF IsNone(u.fragment) THEN None
        ELSE ParsedOrNone("https://gitlab.com/" \o user.val \o "/"
                          \o StripGit(project.val).val
                          \o "/repository/archive.tar.gz?ref=" \o u.fragment.val)

SourcehutArm(u, s) ==
    LET user == Nth(s, 1)
        project == Nth(s, 2)
        aux == Nth(s, 3)
    IN  IF IsNone(user) \/ IsNone(project) THEN None
        ELSE IF aux = Some("archive") THEN None
        ELSE IF IsNone(StripGit(project.val)) THEN None
        ELSE IF IsNone(u.fragment) THEN None
        ELSE ParsedOrNone("https://git.sr.ht/" \o user.val \o "/"
                          \o StripGit(project.val).val \o "/archive/" \o u.fragment.val
                          \o ".tar.gz")

\* get_hosted_git_url: None, Some(tarball url), or Panic (commit.unwrap()).
get_hosted_git_url(u) ==
    IF u.scheme \in HostedSchemes
    THEN LET segs == PathSegments(u)
         IN  IF IsNone(segs) THEN None
             ELSE IF IsNone(u.host) THEN None
             ELSE CASE u.host.val = "github.com" -> GithubArm(u, segs.val)
                    [] u.host.val = "bitbucket.org" -> BitbucketArm(u, segs.val)
                    [] u.host.val = "gitlab.com" -> GitlabArm(u, segs.val)
                    [] u.host.val = "git.sr.ht" -> SourcehutArm(u, segs.val)
                    [] OTHER -> None
    ELSE None

-----------------------------------------------------------------------------
(* get_ideal_hash.                                                         *)

\* Iterator::find: the first element with the prefix.
RECURSIVE FindPrefixed(_, _)
FindPrefixed(split, prefix) ==
    IF Len(split) = 0 THEN None
    ELSE IF StartsWith(split[1], prefix) THEN Some(split[1])
    ELSE FindPrefixed(Tail(split), prefix)

get_ideal_hash_Sha1First(i) ==
    LET split == SplitAsciiWhitespace(i)
    IN  IF Len(split) = 1 THEN Ok(split[1])
        ELSE IF IsSome(FindPrefixed(split, "sha1-")) THEN Ok(FindPrefixed(split, "sha1-").val)
        ELSE IF IsSome(FindPrefixed(split, "sha512-")) THEN Ok(FindPrefixed(split, "sha512-").val)
        ELSE Err("not sure which hash to select")

get_ideal_hash(i) ==
    LET split == SplitAsciiWhitespace(i)
    IN  IF Len(split) = 1 THEN Ok(split[1])
        ELSE IF IsSome(FindPrefixed(split, "sha512-")) THEN Ok(FindPrefixed(split, "sha512-").val)
        ELSE IF IsSome(FindPrefixed(split, "sha1-")) THEN Ok(FindPrefixed(split, "sha1-").val)
        ELSE Err("not sure which hash to select")

-----------------------------------------------------------------------------
(* to_new_packages.                                                        *)

\* enum UrlOrString and its Display.
UrlV(u) == [kind |-> "Url", url |-> u]
StrV(s) == [kind |-> "String", str |-> s]
Display(v) == IF v.kind = "Url" THEN UrlToString(v.url) ELSE v.str

\* HashMap<String, _> is a function on a set of strings.
EmptyMap == [k \in {} |-> None]
Insert(map, key, value) ==
    [k \in DOMAIN map \cup {key} |-> IF k = key THEN value ELSE map[k]]
Extend(map, other) ==
    [k \in DOMAIN map \cup DOMAIN other |-> IF k \in DOMAIN other THEN other[k] ELSE map[k]]

\* get_initial_url
InitialUrl == UrlParse("git+ssh://git@a.b").val

ShorthandHosts ==
    [github |-> "github.com", bitbucket |-> "bitbucket.org", gitlab |-> "gitlab.com"]

\* Url::set_path on a URL with an authority: the path is parsed, and starts
\* with "/".
SetPath(u, p) ==
    [u EXCEPT !.path = ParsePath(IF StartsWith(p, "/") THEN p ELSE "/" \o p)]

RewriteShorthand_AlwaysGit(v, initial_url) ==
    LET withHost == [initial_url EXCEPT !.host = Some(ShorthandHosts[v.scheme])]
        withPath == SetPath(withHost, v.path \o ".git")
    IN  [withPath EXCEPT !.fragment = v.fragment]

\* The block that replaces package.version for a shorthand scheme.
RewriteShorthand(v, initial_url) ==
    LET withHost == [initial_url EXCEPT !.host = Some(ShorthandHosts[v.scheme])]
        withPath == IF EndsWith(v.path, ".git")
                    THEN SetPath(withHost, v.path)
                    ELSE SetPath(withHost, v.path \o ".git")
    IN  [withPath EXCEPT !.fragment = v.fragment]

NewVersion(version, initial_url) ==
    IF version.kind = "Url" /\ version.url.scheme \in DOMAIN ShorthandHosts
    THEN UrlV(RewriteShorthand(version.url, initial_url))
    ELSE version

\* The Package inserted for one node, and its key.
NewKey(name, package, initial_url) ==
    name \o "-" \o Display(NewVersion(package.version, initial_url))

NewPackage(package, initial_url) ==
    LET version == NewVersion(package.version, initial_url)
    IN  [resolved |-> IF version.kind = "Url" THEN Some(version) ELSE package.resolved,
         integrity |-> package.integrity]

\* to_new_packages: the maps it can return, one per iteration order of the
\* HashMaps.  FlattenRest continues the for loop over the names not yet visited.
RECURSIVE to_new_packages(_, _), FlattenRest(_, _, _, _)
to_new_packages(old_packages, initial_url) ==
    FlattenRest(old_packages, DOMAIN old_packages, initial_url, EmptyMap)

FlattenRest(old_packages, rest, initial_url, acc) ==
    IF rest = {} THEN {acc}
    ELSE UNION {
        LET package == old_packages[name]
            inserted == Insert(acc, NewKey(name, package, initial_url),
                               NewPackage(package, initial_url))
            extended == IF IsSome(package.dependencies)
                        THEN {Extend(inserted, sub) :
                                sub \in to_new_packages(package.dependencies.val, initial_url)}
                        ELSE {inserted}
        IN  UNION {FlattenRest(old_packages, rest \ {name}, initial_url, e) : e \in extended}
        : name \in rest }

-----------------------------------------------------------------------------
(* Inputs.                                                                 *)

MaxSegs == 3
MaxTokens == 3

\* Sequences over S of length 0..n.
SeqsUpTo(S, n) == UNION {[1..k -> S] : k \in 0..n}

Schemes == HostedSchemes \cup {"ftp"}
Hosts == {Some("github.com"), Some("bitbucket.org"), Some("gitlab.com"),
          Some("git.sr.ht"), Some("example.com")}
Segments == {"u", "p.git", "tree", "get", "archive", "archive.tar.gz", "~"}
Fragments == {None, Some("fix/bug")}
\* /tree/<commit> paths, a trailing slash and an empty first segment.
ExtraPaths == {"/u/u/tree/c2", "/u/p.git/tree/c2", "/u/u/", "//u"}
Paths == {"/" \o Join(ss, "/") : ss \in SeqsUpTo(Segments, MaxSegs)} \cup ExtraPaths

\* A commit the parser of the tarball URL takes for a path segment of its own.
DotCommitUrls ==
    {MkUrl("https", "", Some(h), "/u/p.git", None, Some(c)) :
        h \in {"github.com", "bitbucket.org", "gitlab.com", "git.sr.ht"},
        c \in {"..", "../c2"}}

\* ssh URLs name the user git.
InputUrl(sc, h, p, f) ==
    MkUrl(sc, IF sc \in {"ssh", "git+ssh"} THEN "git" ELSE "", h, p, None, f)

HashTokens == {"sha512-foo", "sha1-bar", "md5-baz", "sha512-qux"}
Separators == {" ", "\t ", "\n"}

\* An integrity string: tokens joined by whitespace, with optional padding.
IntegrityOf(ts, sep, pad) == pad \o Join(ts, sep) \o pad

MaxNodes == 2

Names == {"a", "b"}

RegistryUrl == MkUrl("https", "", Some("registry.npmjs.org"), "/a/-/a-1.0.0.tgz", None, None)
Shorthand(scheme, path, fragment) == MkUrl(scheme, "", None, path, None, fragment)

\* version, resolved and integrity of the nodes drawn.  A string that parses
\* as a URL deserializes as a Url, so the String versions are not URLs.
NodeKinds ==
    { [version |-> StrV("1.0.0"), resolved |-> Some(UrlV(RegistryUrl)),
       integrity |-> Some("sha512-foo")],
      [version |-> StrV("1.0.0"), resolved |-> Some(UrlV(RegistryUrl)),
       integrity |-> Some("sha1-bar")],
      [version |-> StrV("1.0.0"), resolved |-> None, integrity |-> None],
      [version |-> UrlV(Shorthand("github", "x/y", Some("c1"))), resolved |-> None,
       integrity |-> None],
      [version |-> UrlV(Shorthand("github", "x/y", Some("c1"))),
       resolved |-> Some(StrV("x/y#c1")), integrity |-> Some("sha512-foo")],
      [version |-> UrlV(Shorthand("gitlab", "x/y.git", None)), resolved |-> None,
       integrity |-> None],
      [version |-> UrlV(Shorthand("gitlab", "x/../y", Some("c1"))), resolved |-> None,
       integrity |-> None],
      [version |-> UrlV(Shorthand("bitbucket", "/x/y", Some("c1"))),
       resolved |-> Some(UrlV(RegistryUrl)), integrity |-> None],
      [version |-> UrlV(MkUrl("https", "", Some("example.com"), "/a.tgz", None, None)),
       resolved |-> Some(UrlV(RegistryUrl)), integrity |-> None],
      [version |-> UrlV(MkUrl("git+ssh", "git", Some("github.com"), "/x/y.git", None,
                              Some("c1"))),
       resolved |-> None, integrity |-> Some("sha1-bar")] }

\* A tree of n nodes, node i hanging under node parent[i] < i (0: the top map);
\* no two entries of one map have the same name.
FlatTrees(n) ==
    {t \in [1..n -> [parent : 0..(n - 1), name : Names, kind : NodeKinds]] :
        /\ \A i \in 1..n : t[i].parent < i
        /\ \A i, j \in 1..n :
              (i # j /\ t[i].parent = t[j].parent) => t[i].name # t[j].name}

RECURSIVE BuildMap(_, _)
BuildMap(t, parent) ==
    LET kids == {i \in DOMAIN t : t[i].parent = parent}
        node(i) == [version |-> t[i].kind.version, resolved |-> t[i].kind.resolved,
                    integrity |-> t[i].kind.integrity,
                    dependencies |-> IF \E j \in DOMAIN t : t[j].parent = i
                                     THEN Some(BuildMap(t, i)) ELSE None]
    IN  [nm \in {t[i].name : i \in kids} |->
            node(CHOOSE i \in kids : t[i].name = nm)]

\* Two top-level packages, one of them nesting a second copy of the other
\* with another integrity: the result depends on the iteration order.
SiblingCollision ==
    LET k1 == CHOOSE k \in NodeKinds : k.version = StrV("1.0.0") /\ k.integrity = Some("sha512-foo")
        k2 == CHOOSE k \in NodeKinds : k.version = StrV("1.0.0") /\ k.integrity = Some("sha1-bar")
    IN  <<[parent |-> 0, name |-> "a", kind |-> k1],
          [parent |-> 0, name |-> "b", kind |-> k1],
          [parent |-> 2, name |-> "a", kind |-> k2]>>

LegacyTrees(n) == {BuildMap(t, 0) : t \in FlatTrees(n)}

-----------------------------------------------------------------------------
(* The cache (cacache.rs is no part of the sources read: Cache::put is     *)
(* modelled from its contract).  A digest is text: the algorithm, "-", and  *)
(* a stand-in for the encoded hash of the bytes, one per byte string.  The  *)
(* record's timestamp and the sharding of the paths are left out.           *)

Digest(algo, bytes) == algo \o "-H" \o bytes

DefaultAlgorithm == "sha512"

\* The algorithm an expected digest implies: the text before its first "-".
AlgorithmOf(expected) ==
    IF IsSome(expected)
    THEN SubSeq(expected.val, 1, FindFrom(expected.val, {"-"}, 1) - 1)
    ELSE DefaultAlgorithm

ContentPath(digest) == "content-v2/" \o digest
BucketPath(lookupKey) == "index-v5/" \o lookupKey

\* put, step 1: the digest computed.
PutDigest(bytes, expected) == Digest(AlgorithmOf(expected), bytes)

\* put, step 2: the expected digest, if given, is the computed one.
PutVerified(bytes, expected) == IsNone(expected) \/ expected.val = PutDigest(bytes, expected)

\* put, step 3: the blob written unless one of that digest exists.
WriteContent(blobs, digest, bytes) ==
    IF ContentPath(digest) \in DOMAIN blobs THEN blobs
    ELSE Insert(blobs, ContentPath(digest), bytes)

IndexRecord(lookupKey, sourceUrl, bytes, digest) ==
    [key |-> lookupKey, integrity |-> digest, size |-> Len(bytes), url |-> sourceUrl]

AppendIndex_Dedup(idx, rec) ==
    LET b == BucketPath(rec.key)
    IN  IF b \in DOMAIN idx /\ \E i \in 1..Len(idx[b]) : idx[b][i] = rec THEN idx
        ELSE Insert(idx, b, (IF b \in DOMAIN idx THEN idx[b] ELSE <<>>) \o <<rec>>)

AppendIndex_Truncate(idx, rec) == Insert(idx, BucketPath(rec.key), <<rec>>)

\* put, step 4: one record appended to the key's bucket, appends to one
\* bucket being serialized.
AppendIndex(idx, rec) ==
    LET b == BucketPath(rec.key)
    IN  Insert(idx, b, (IF b \in DOMAIN idx THEN idx[b] ELSE <<>>) \o <<rec>>)

-----------------------------------------------------------------------------
(* Variables a specification does not use.                                 *)

PureIdle ==
    /\ url = None /\ hosted = Idle
    /\ integrity = "" /\ tokens = <<>> /\ ideal = Idle
    /\ old = EmptyMap /\ new = Idle

CacheEmpty == content = EmptyMap /\ index = EmptyMap

MainIdle ==
    /\ lock = None /\ pc = "idle" /\ packages = EmptyMap /\ unvisited = {}
    /\ workers = EmptyMap /\ full = FALSE /\ panicked = FALSE
    /\ started = {} /\ requests = {} /\ puts = <<>>
    /\ lockcopy = None /\ outcome = "idle"

-----------------------------------------------------------------------------
(* Specifications of the pure functions: draw an input, apply the function.*)

InitUrl ==
    /\ \/ \E sc \in Schemes, h \in Hosts, p \in Paths, f \in Fragments :
             url = InputUrl(sc, h, p, f)
       \/ url \in DotCommitUrls
    /\ hosted = Pending
    /\ integrity = "" /\ tokens = <<>> /\ ideal = Idle
    /\ old = EmptyMap /\ new = Idle
    /\ CacheEmpty /\ calls = <<>> /\ MainIdle

ResolveHosted ==
    /\ hosted = Pending
    /\ hosted' = get_hosted_git_url(url)
    /\ UNCHANGED <<url, integrity, tokens, ideal, old, new, cacheVars, calls, mainVars>>

SpecUrl == InitUrl /\ [][ResolveHosted]_vars

InitHash ==
    /\ tokens \in SeqsUpTo(HashTokens, MaxTokens)
    /\ \E sep \in Separators, pad \in {"", " "} : integrity = IntegrityOf(tokens, sep, pad)
    /\ ideal = Pending
    /\ url = None /\ hosted = Idle
    /\ old = EmptyMap /\ new = Idle
    /\ CacheEmpty /\ calls = <<>> /\ MainIdle

SelectHash ==
    /\ ideal = Pending
    /\ ideal' = get_ideal_hash(integrity)
    /\ UNCHANGED <<url, hosted, integrity, tokens, old, new, cacheVars, calls, mainVars>>

SpecHash == InitHash /\ [][SelectHash]_vars

InitFlat ==
    /\ \/ \E n \in 0..MaxNodes : old \in LegacyTrees(n)
       \/ old = BuildMap(SiblingCollision, 0)
    /\ new = Pending
    /\ url = None /\ hosted = Idle
    /\ integrity = "" /\ tokens = <<>> /\ ideal = Idle
    /\ CacheEmpty /\ calls = <<>> /\ MainIdle

Flatten ==
    /\ new = Pending
    /\ new' \in {Ok(m) : m \in to_new_packages(old, InitialUrl)}
    /\ UNCHANGED <<url, hosted, integrity, tokens, ideal, old, cacheVars, calls, mainVars>>

SpecFlat == InitFlat /\ [][Flatten]_vars

-----------------------------------------------------------------------------
(* Cache::put called any number of times, one call after the other.        *)

MaxPuts == 3

Bodies == {"b1", "b2"}
LookupKeys == {"make-fetch-happen:request-cache:https://r/a",
               "make-fetch-happen:request-cache:https://r/b"}
ExpectedDigests == {None, Some("sha512-Hb1"), Some("sha1-Hb1")}

InitCache == PureIdle /\ CacheEmpty /\ calls = <<>> /\ MainIdle

Put(lookupKey, sourceUrl, bytes, expected) ==
    LET digest == PutDigest(bytes, expected)
        call == [key |-> lookupKey, bytes |-> bytes, expected |-> expected]
    IN  IF PutVerified(bytes, expected)
        THEN /\ content' = WriteContent(content, digest, bytes)
             /\ index' = AppendIndex(index, IndexRecord(lookupKey, sourceUrl, bytes, digest))
             /\ calls' = Append(calls, [call |-> call, result |-> Ok(digest)])
        ELSE /\ UNCHANGED cacheVars
             /\ calls' = Append(calls, [call |-> call, result |-> Err("IntegrityMismatch")])

CallPut ==
    /\ Len(calls) < MaxPuts
    /\ \E k \in LookupKeys, b \in Bodies, e \in ExpectedDigests :
          Put(k, SubSeq(k, Len("make-fetch-happen:request-cache:") + 1, Len(k)), b, e)
    /\ UNCHANGED <<pureVars, mainVars>>

SpecCache == InitCache /\ [][CallPut]_vars

-----------------------------------------------------------------------------
(* main.  The command line, the choice of the output directory and the     *)
(* final nix hash call are left out; reading and parsing the lockfile have  *)
(* succeeded.                                                               *)

MaxPkgs == 2

Workers == {"w1", "w2"}

LockText == "{ the lockfile as read }"

GitUrl == MkUrl("git+ssh", "git", Some("github.com"), "/x/y.git", None, Some("c1"))
NoCommitUrl == MkUrl("https", "", Some("github.com"), "/x/y", None, None)

\* resolved and integrity of the packages of a version 2 or 3 lockfile.
PackageKinds ==
    { [resolved |-> None, integrity |-> None],
      [resolved |-> Some(StrV("../local")), integrity |-> Some("sha512-Hb1")],
      [resolved |-> Some(UrlV(RegistryUrl)), integrity |-> Some("sha512-Hb1")],
      [resolved |-> Some(UrlV(RegistryUrl)), integrity |-> Some("sha1-Hb1 sha512-Hb1")],
      [resolved |-> Some(UrlV(RegistryUrl)), integrity |-> Some("md5-Hb1 crc-Hb1")],
      [resolved |-> Some(UrlV(GitUrl)), integrity |-> None],
      [resolved |-> Some(UrlV(NoCommitUrl)), integrity |-> None] }

PackageKeys == {"", "node_modules/a", "node_modules/b"}

FlatPackages(n) ==
    UNION {[ks -> PackageKinds] : ks \in {s \in SUBSET PackageKeys : Cardinality(s) <= n}}

\* The legacy trees of the version 1 lockfiles: at most one node.
MainTrees == LegacyTrees(0) \cup LegacyTrees(1)

Lockfile(v, d, p) ==
    [content |-> LockText, version |-> v, dependencies |-> d, packages |-> p]

InitMain ==
    /\ PureIdle /\ CacheEmpty /\ calls = <<>>
    /\ \/ \E v \in {2, 3, 99}, p \in {None} \cup {Some(m) : m \in FlatPackages(MaxPkgs)} :
             lock = Lockfile(v, None, p)
       \/ \E v \in {1, 99}, d \in {None} \cup {Some(t) : t \in MainTrees} :
             lock = Lockfile(v, d, None)
    /\ pc = "start"
    /\ packages = EmptyMap
    /\ unvisited = {}
    /\ workers = [w \in Workers |-> [st |-> "idle"]]
    /\ full = FALSE /\ panicked = FALSE
    /\ started = {} /\ requests = {} /\ puts = <<>>
    /\ lockcopy = None
    /\ outcome = "running"

Normalized_AnyVersion(l) ==
    IF l.version = 1
    THEN IF IsSome(l.dependencies)
         THEN {Some(m) : m \in to_new_packages(l.dependencies.val, InitialUrl)}
         ELSE {None}
    ELSE {l.packages}

\* The match on lock.version: the values packages can take, or {Panic}.
Normalized(l) ==
    CASE l.version = 1 ->
            IF IsSome(l.dependencies)
            THEN {Some(m) : m \in to_new_packages(l.dependencies.val, InitialUrl)}
            ELSE {None}
      [] l.version \in {2, 3} -> {l.packages}
      [] OTHER -> {Panic}

\* From the lockfile read to the parallel iteration, the early return, or
\* the panic on the version.
Normalize ==
    /\ pc = "start"
    /\ \E p \in Normalized(lock) :
          CASE p = Panic ->
                  /\ pc' = "done" /\ outcome' = "Panic"
                  /\ UNCHANGED <<packages, unvisited>>
            [] p = None ->
                  /\ pc' = "done" /\ outcome' = "Ok"
                  /\ UNCHANGED <<packages, unvisited>>
            [] OTHER ->
                  /\ pc' = "fetch" /\ UNCHANGED outcome
                  /\ packages' = p.val
                  /\ unvisited' = DOMAIN p.val
    /\ UNCHANGED <<pureVars, cacheVars, calls, lock, workers, full, panicked, started,
                   requests, puts, lockcopy>>

Fetchable_NoEmptyCheck(dep, package) ==
    IsSome(package.resolved) /\ package.resolved.val.kind = "Url"

\* The two filters of the parallel iterator.
Fetchable(dep, package) ==
    /\ dep # ""
    /\ IsSome(package.resolved) /\ package.resolved.val.kind = "Url"

CacheKey(resolved) == "make-fetch-happen:request-cache:" \o UrlToString(resolved)

\* The iterator hands a thread the next item; one the filters drop ends
\* there.  Otherwise the closure runs up to the GET it sends: the hosted-git
\* rewrite (which may panic) and the request.
Start(w) ==
    /\ pc = "fetch" /\ ~full
    /\ workers[w].st = "idle"
    /\ \E dep \in unvisited :
          /\ unvisited' = unvisited \ {dep}
          /\ IF ~Fetchable(dep, packages[dep])
             THEN UNCHANGED <<workers, panicked, started, requests>>
             ELSE LET package == packages[dep]
                      hres == IF IsSome(package.resolved) /\ package.resolved.val.kind = "Url"
                              THEN get_hosted_git_url(package.resolved.val.url)
                              ELSE Panic
                      resolved == IF IsSome(hres) THEN hres.val ELSE package.resolved.val.url
                  IN  /\ started' = started \cup {dep}
                      /\ IF hres = Panic
                         THEN /\ panicked' = TRUE
                              /\ UNCHANGED <<workers, requests>>
                         ELSE /\ requests' = requests \cup
                                    {[dep |-> dep, url |-> UrlToString(resolved)]}
                              /\ workers' = [workers EXCEPT ![w] =
                                    [st |-> "requested", dep |-> dep, resolved |-> resolved,
                                     integrity |-> package.integrity]]
                              /\ UNCHANGED panicked
    /\ UNCHANGED <<pureVars, cacheVars, calls, lock, pc, packages, full, puts, lockcopy,
                   outcome>>

\* The closure returns Err: try_for_each hands out no further item.
ReturnErr(w) ==
    /\ full' = TRUE
    /\ workers' = [workers EXCEPT ![w] = [st |-> "idle"]]

\* The request or the reading of the body fails.
FetchFails(w) ==
    /\ pc = "fetch"
    /\ workers[w].st = "requested"
    /\ ReturnErr(w)
    /\ UNCHANGED <<pureVars, cacheVars, calls, lock, pc, packages, unvisited, panicked,
                   started, requests, puts, lockcopy, outcome>>

\* The body is read; the integrity, if any, goes through get_ideal_hash.
FetchDone(w) ==
    /\ pc = "fetch"
    /\ workers[w].st = "requested"
    /\ \E data \in Bodies :
          LET me == workers[w]
              hash == IF IsSome(me.integrity) THEN get_ideal_hash(me.integrity.val)
                      ELSE Ok("")
          IN  IF hash.tag = "Err"
              THEN ReturnErr(w)
              ELSE /\ workers' = [workers EXCEPT ![w] =
                         [st |-> "put", dep |-> me.dep, resolved |-> me.resolved,
                          data |-> data,
                          expected |-> IF IsSome(me.integrity) THEN Some(hash.val)
                                       ELSE None]]
                   /\ UNCHANGED full
    /\ UNCHANGED <<pureVars, cacheVars, calls, lock, pc, packages, unvisited, panicked,
                   started, requests, puts, lockcopy, outcome>>

\* cache.put, steps 1 to 3: the digest, its check, the blob.
PutContent(w) ==
    /\ pc = "fetch"
    /\ workers[w].st = "put"
    /\ LET me == workers[w]
           digest == PutDigest(me.data, me.expected)
       IN  IF PutVerified(me.data, me.expected)
           THEN /\ content' = WriteContent(content, digest, me.data)
                /\ workers' = [workers EXCEPT ![w] =
                      [st |-> "index", dep |-> me.dep, resolved |-> me.resolved,
                       data |-> me.data, digest |-> digest]]
                /\ UNCHANGED full
           ELSE /\ ReturnErr(w)
                /\ UNCHANGED content
    /\ UNCHANGED <<pureVars, index, calls, lock, pc, packages, unvisited, panicked,
                   started, requests, puts, lockcopy, outcome>>

\* cache.put, steps 4 and 5: the index record; the closure returns Ok.
PutIndex(w) ==
    /\ pc = "fetch"
    /\ workers[w].st = "index"
    /\ LET me == workers[w]
           rec == IndexRecord(CacheKey(me.resolved), UrlToString(me.resolved), me.data,
                              me.digest)
       IN  /\ index' = AppendIndex(index, rec)
           /\ puts' = Append(puts, [dep |-> me.dep, rec |-> rec])
    /\ workers' = [workers EXCEPT ![w] = [st |-> "idle"]]
    /\ UNCHANGED <<pureVars, content, calls, lock, pc, packages, unvisited, full, panicked,
                   started, requests, lockcopy, outcome>>

RunResult_IgnoreErr(isFull, hasPanicked) == IF hasPanicked THEN "Panic" ELSE "Ok"

\* What try_for_each(..)? makes of the closure calls.
RunResult(isFull, hasPanicked) ==
    IF hasPanicked THEN "Panic" ELSE IF isFull THEN "Err" ELSE "Ok"

\* try_for_each is over: every call has returned, and no item is left or
\* none will be handed out.  On Ok the lockfile is copied.
Finish ==
    /\ pc = "fetch"
    /\ \A w \in Workers : workers[w].st = "idle"
    /\ unvisited = {} \/ full \/ panicked
    /\ pc' = "done"
    /\ outcome' = RunResult(full, panicked)
    /\ lockcopy' = IF RunResult(full, panicked) = "Ok" THEN Some(lock.content) ELSE lockcopy
    /\ UNCHANGED <<pureVars, cacheVars, calls, lock, packages, unvisited, workers, full,
                   panicked, started, requests, puts>>

NextMain ==
    \/ Normalize
    \/ Finish
    \/ \E w \in Workers :
          Start(w) \/ FetchFails(w) \/ FetchDone(w) \/ PutContent(w) \/ PutIndex(w)

SpecMain == InitMain /\ [][NextMain]_vars

-----------------------------------------------------------------------------
(* Properties of get_hosted_git_url.                                       *)

ListedScheme(u) ==
    \/ u.scheme = "git" \/ u.scheme = "http" \/ u.scheme = "https"
    \/ u.scheme = "ssh" \/ u.scheme = "git+ssh" \/ u.scheme = "git+https"

ListedHost(u) ==
    \E h \in {"github.com", "bitbucket.org", "gitlab.com", "git.sr.ht"} : u.host = Some(h)

\* The path is exactly /user/project.
IsUserProject(u, user, project) ==
    /\ u.path = "/" \o user \o "/" \o project
    /\ ~Contains(user, "/") /\ ~Contains(project, "/")

WithoutGit(project) ==
    IF Len(project) >= 4 /\ SubSeq(project, Len(project) - 3, Len(project)) = ".git"
    THEN SubSeq(project, 1, Len(project) - 4)
    ELSE project

\* The table of tarball URLs, in components (the commit holds no "?" or "#").
TableUrl(host, user, project, commit) ==
    CASE host = "github.com" ->
            MkUrl("https", "", Some("codeload.github.com"),
                  "/" \o user \o "/" \o WithoutGit(project) \o "/tar.gz/" \o commit,
                  None, None)
      [] host = "bitbucket.org" ->
            MkUrl("https", "", Some("bitbucket.org"),
                  "/" \o user \o "/" \o WithoutGit(project) \o "/get/" \o commit \o ".tar.gz",
                  None, None)
      [] host = "gitlab.com" ->
            MkUrl("https", "", Some("gitlab.com"),
                  "/" \o user \o "/" \o WithoutGit(project) \o "/repository/archive.tar.gz",
                  Some("ref=" \o commit), None)
      [] host = "git.sr.ht" ->
            MkUrl("https", "", Some("git.sr.ht"),
                  "/" \o user \o "/" \o WithoutGit(project) \o "/archive/" \o commit \o ".tar.gz",
                  None, None)

ThirdSegment(u) ==
    LET segs == SplitChar(Tail(u.path), "/") IN IF Len(segs) >= 3 THEN Some(segs[3]) ELSE None

\* The skip conditions of the table; gitlabPath is the text the gitlab.com
\* condition is looked for in.
SkipCondition(u, gitlabPath) ==
    \/ u.host = Some("github.com") /\ IsSome(ThirdSegment(u)) /\ ThirdSegment(u) # Some("tree")
    \/ u.host = Some("bitbucket.org") /\ ThirdSegment(u) = Some("get")
    \/ u.host = Some("gitlab.com")
        /\ (Contains(gitlabPath, "/~/") \/ Contains(gitlabPath, "/archive.tar.gz"))
    \/ u.host = Some("git.sr.ht") /\ ThirdSegment(u) = Some("archive")

HasDotSegment(path) ==
    path # "" /\ LET segs == SplitChar(Tail(path), "/")
                 IN  \E i \in 1..Len(segs) : segs[i] \in {".", ".."}

\* dots: whether URLs of the table with a "." or ".." path segment count.
FollowsTable(u, res, gitlabPath, dots) ==
    /\ \A user, project \in Segments :
          ( /\ ListedScheme(u) /\ ListedHost(u)
            /\ IsUserProject(u, user, project)
            /\ IsSome(u.fragment)
            /\ ~SkipCondition(u, gitlabPath)
            /\ dots \/ ~HasDotSegment(TableUrl(u.host.val, user, project, u.fragment.val).path) )
          => res = Some(TableUrl(u.host.val, user, project, u.fragment.val))
    /\ (~ListedScheme(u) \/ ~ListedHost(u) \/ SkipCondition(u, gitlabPath)) => res = None

C10_NeverPanics == hosted # Panic

-----------------------------------------------------------------------------
(* Properties of get_ideal_hash.                                           *)

HasPrefixAt(ts, prefix, i) == Len(ts[i]) >= Len(prefix) /\ SubSeq(ts[i], 1, Len(prefix)) = prefix

FirstPrefixed(ts, prefix) ==
    LET idx == {i \in 1..Len(ts) : HasPrefixAt(ts, prefix, i)}
    IN  ts[CHOOSE i \in idx : \A j \in idx : i <= j]

AnyPrefixed(ts, prefix) == \E i \in 1..Len(ts) : HasPrefixAt(ts, prefix, i)

\* C2: one token is returned as it is; otherwise the first sha512- token, else
\* the first sha1- token, else the selection fails.
C2_FixedPrecedence ==
    ideal # Pending /\ ideal # Idle =>
        IF Len(tokens) = 1 THEN ideal = Ok(tokens[1])
        ELSE IF AnyPrefixed(tokens, "sha512-") THEN ideal = Ok(FirstPrefixed(tokens, "sha512-"))
        ELSE IF AnyPrefixed(tokens, "sha1-") THEN ideal = Ok(FirstPrefixed(tokens, "sha1-"))
        ELSE ideal.tag = "Err"

\* sha512- was selected though a sha1- token came first.
C2_Witness ==
    /\ Len(tokens) = 3 /\ tokens[1] = "sha1-bar" /\ tokens[2] = "sha512-qux"
    /\ tokens[3] = "sha512-foo" /\ ideal = Ok("sha512-qux")

-----------------------------------------------------------------------------
(* Properties of to_new_packages.                                          *)

\* Every node of a tree, with the name it is stored under.
RECURSIVE AllNodes(_)
AllNodes(map) ==
    UNION {{[name |-> nm, node |-> map[nm]]}
           \cup (IF IsSome(map[nm].dependencies) THEN AllNodes(map[nm].dependencies.val)
                 ELSE {})
           : nm \in DOMAIN map}

IsShorthand(n) ==
    /\ n.node.version.kind = "Url"
    /\ n.node.version.url.scheme \in {"github", "bitbucket", "gitlab"}

ProviderHost(scheme) ==
    CASE scheme = "github" -> "github.com"
      [] scheme = "bitbucket" -> "bitbucket.org"
      [] scheme = "gitlab" -> "gitlab.com"

\* git+ssh://git@<provider-host><path>.git#<fragment>, as text.
RewrittenText(v) ==
    "git+ssh://git@" \o ProviderHost(v.scheme)
    \o (IF SubSeq(v.path, 1, 1) = "/" THEN "" ELSE "/") \o v.path
    \o (IF v.path = WithoutGit(v.path) THEN ".git" ELSE "")
    \o (IF IsSome(v.fragment) THEN "#" \o v.fragment.val ELSE "")

KeyOf(n) ==
    n.name \o "-" \o (IF IsShorthand(n) THEN RewrittenText(n.node.version.url)
                       ELSE Display(n.node.version))

\* The entry of n carries what n had: its integrity and, for a non-URL
\* version, its resolved.
CarriesOver(entry, n) ==
    /\ entry.integrity = n.node.integrity
    /\ n.node.version.kind = "String" => entry.resolved = n.node.resolved

RewrittenEntry(m, n) ==
    /\ KeyOf(n) \in DOMAIN m
    /\ IsShorthand(n) =>
          /\ IsSome(m[KeyOf(n)].resolved)
          /\ m[KeyOf(n)].resolved.val.kind = "Url"
          /\ UrlToString(m[KeyOf(n)].resolved.val.url) = RewrittenText(n.node.version.url)

SingleShorthand(tree) ==
    /\ Cardinality(DOMAIN tree) = 1
    /\ \A n \in AllNodes(tree) : IsShorthand(n) /\ IsNone(n.node.dependencies)

PlainPath(n) ==
    IsShorthand(n) =>
        ~HasDotSegment((IF StartsWith(n.node.version.url.path, "/") THEN "" ELSE "/")
                       \o n.node.version.url.path)

-----------------------------------------------------------------------------
(* Properties of the cache.                                                *)

\* Nothing written is altered or removed by a step: every blob keeps its
\* bytes, every bucket keeps its records and only grows at its end.
Preserved ==
    /\ \A p \in DOMAIN content : p \in DOMAIN content' /\ content'[p] = content[p]
    /\ \A b \in DOMAIN index :
          /\ b \in DOMAIN index'
          /\ Len(index'[b]) >= Len(index[b])
          /\ SubSeq(index'[b], 1, Len(index[b])) = index[b]

\* The records of the index, in any bucket, with this key and digest.
RecordsOf(key, digest) ==
    {<<b, i>> \in UNION {{b} \X (1..Len(index[b])) : b \in DOMAIN index} :
        index[b][i].key = key /\ index[b][i].integrity = digest}

\* The blobs stored for this digest: at a path it names, with bytes it fits.
BlobsOf(digest) ==
    {p \in DOMAIN content :
        /\ Len(p) >= Len(digest) /\ SubSeq(p, Len(p) - Len(digest) + 1, Len(p)) = digest
        /\ Digest(AlgorithmOf(Some(digest)), content[p]) = digest}

\* The digests the successful calls returned.
DigestsReturned == {calls[i].result.val : i \in {k \in 1..Len(calls) : calls[k].result.tag = "Ok"}}

SameKeyAndBytes(i, j) ==
    /\ calls[i].call.key = calls[j].call.key
    /\ calls[i].call.bytes = calls[j].call.bytes

TwoRecordsOneBlob(i, j) ==
    /\ calls[i].result.tag = "Ok" /\ calls[j].result.tag = "Ok"
    /\ calls[i].result = calls[j].result
    /\ Cardinality(RecordsOf(calls[i].call.key, calls[i].result.val)) >= 2
    /\ Cardinality(BlobsOf(calls[i].result.val)) = 1

\* C8 as stated: any two puts of the same lookupKey and bytes return the same
\* digest and leave two index records and one blob; nothing is altered.
C8_SameKeyAndBytes ==
    \A i, j \in 1..Len(calls) : (i < j /\ SameKeyAndBytes(i, j)) => TwoRecordsOneBlob(i, j)

\* C8 amended: two puts of the same lookupKey and bytes that both succeed and
\* whose expected digests imply the same algorithm (an absent one the default)
\* return the same digest and leave two index records and one blob; no step
\* alters or removes an index record or a blob.
C8_SameKeyBytesAlgorithm ==
    /\ [](\A i, j \in 1..Len(calls) :
            ( /\ i < j /\ SameKeyAndBytes(i, j)
              /\ calls[i].result.tag = "Ok" /\ calls[j].result.tag = "Ok"
              /\ AlgorithmOf(calls[i].call.expected) = AlgorithmOf(calls[j].call.expected) )
            => /\ TwoRecordsOneBlob(i, j)
               /\ Cardinality(DOMAIN content) = Cardinality(DigestsReturned))
    /\ [][Preserved]_vars

\* The same put made twice, after another put: two records, one blob more.
C8_Witness ==
    /\ Len(calls) = 3
    /\ calls[1].call.key # calls[2].call.key
    /\ calls[2].call = calls[3].call
    /\ calls[2].call.expected = Some("sha1-Hb1")
    /\ calls[3].result = Ok("sha1-Hb1")
    /\ Len(index[BucketPath(calls[2].call.key)]) = 2
    /\ Cardinality(DOMAIN content) = 2

-----------------------------------------------------------------------------
(* Properties of main.                                                     *)

ResolvedIsUrl(dep) ==
    /\ dep \in DOMAIN packages
    /\ packages[dep].resolved.tag = "Some"
    /\ packages[dep].resolved.val.kind = "Url"

\* C4: a GET is issued and a put is made only for a package with a non-empty
\* key and a URL-typed resolved.
C4_OnlyFetchable ==
    /\ \A r \in requests : r.dep # "" /\ ResolvedIsUrl(r.dep)
    /\ \A i \in 1..Len(puts) : puts[i].dep # "" /\ ResolvedIsUrl(puts[i].dep)
    /\ \A w \in DOMAIN workers :
          workers[w].st # "idle" => workers[w].dep # "" /\ ResolvedIsUrl(workers[w].dep)

\* Beside a root package "" with a URL-typed resolved, the one fetchable
\* package was fetched and stored.
C4_Witness ==
    /\ pc = "done" /\ outcome = "Ok"
    /\ "" \in DOMAIN packages /\ ResolvedIsUrl("")
    /\ Len(puts) = 1 /\ Cardinality(requests) = 1

\* C5: a run over a lockfile of version 1, 2 or 3 that ends in success has
\* written package-lock.json with the text read.
C5_SuccessCopiesLockfile ==
    (pc = "done" /\ outcome = "Ok" /\ lock.version \in {1, 2, 3})
        => lockcopy = Some(lock.content)

C7_UnsupportedVersion ==
    lock.version \notin {1, 2, 3} =>
        /\ started = {} /\ requests = {} /\ puts = <<>>
        /\ content = EmptyMap /\ index = EmptyMap
        /\ lockcopy = None
        /\ outcome \in {"running", "Panic"}
        /\ pc = "done" => outcome = "Panic"

\* A version 99 lockfile with fetchable packages ended in the panic.
C7_Witness ==
    /\ lock.version = 99 /\ pc = "done" /\ outcome = "Panic"
    /\ IsSome(lock.packages)
    /\ \E d \in DOMAIN lock.packages.val : Fetchable(d, lock.packages.val[d])

Count(seq, x) == Cardinality({i \in 1..Len(seq) : seq[i] = x})

PutRecords == [i \in 1..Len(puts) |-> puts[i].rec]

PutsInto(b) == {i \in 1..Len(puts) : BucketPath(puts[i].rec.key) = b}

====
